---- MODULE Spec2Model ----
(***************************************************************************)
(* Model of matching.py: the text normaliser (preprocess_text), the rule   *)
(* matcher (load_lexicon, compute_rule_score), the fusion policy           *)
(* (compute_fusion_score), the ranking pipeline (rank_top_k) and the       *)
(* coverage validator (validate_trace_coverage).                           *)
(*                                                                         *)
(* Texts are sequences of one-character strings over Chars.  Scores are    *)
(* integers in hundredths (0.85 is 85).                                    *)
(***************************************************************************)
EXTENDS Integers, Sequences, FiniteSets, TLC

\* ------------------------------------------------------------- bounds
MaxTextLen == 3     \* longest text given to a direct preprocess_text call
MaxPhrases == 2     \* longest stop-phrase sequence given to such a call
MaxChildren == 2    \* rows of the child table
MaxParents == 2     \* rows of the parent table
MaxRows == 2        \* rows of a result table given to validate_trace_coverage

\* An optional score is a sequence: None when absent, Some(x) when present.
None == <<>>
Some(x) == <<x>>
Value(opt) == opt[1]

\* A text cell that holds no string: Python None, or the float NaN that an
\* empty spreadsheet cell is read as.
NoneCell == <<"None">>
NaN == <<"NaN">>

\* ------------------------------------------------------------- texts
Chars == {"e", "t", " ", "E"}

Lower(c) == IF c = "E" THEN "e" ELSE c

\* str.lower()
lower(s) == [i \in 1..Len(s) |-> Lower(s[i])]

IsSpace(c) == c = " "

\* str.replace(old, new): every non-overlapping occurrence, left to right;
\* an empty old matches before every character and at the end.
RECURSIVE ReplaceFrom(_, _, _)
ReplaceFrom(s, old, new) ==
    IF Len(s) < Len(old) THEN s
    ELSE IF SubSeq(s, 1, Len(old)) = old
         THEN new \o ReplaceFrom(SubSeq(s, Len(old) + 1, Len(s)), old, new)
         ELSE <<s[1]>> \o ReplaceFrom(Tail(s), old, new)

RECURSIVE Interleave(_, _)
Interleave(s, new) ==
    IF s = <<>> THEN new ELSE new \o <<s[1]>> \o Interleave(Tail(s), new)

replace(s, old, new) ==
    IF old = <<>> THEN Interleave(s, new) ELSE ReplaceFrom(s, old, new)

\* str.split(): the maximal runs of non-whitespace characters, in order.
RECURSIVE SplitFrom(_, _)
SplitFrom(s, cur) ==
    IF s = <<>> THEN (IF cur = <<>> THEN <<>> ELSE <<cur>>)
    ELSE IF IsSpace(s[1])
         THEN (IF cur = <<>> THEN <<>> ELSE <<cur>>) \o SplitFrom(Tail(s), <<>>)
         ELSE SplitFrom(Tail(s), Append(cur, s[1]))

split(s) == SplitFrom(s, <<>>)

\* " ".join(words)
RECURSIVE join(_)
join(words) ==
    IF words = <<>> THEN <<>>
    ELSE IF Len(words) = 1 THEN words[1]
    ELSE words[1] \o <<" ">> \o join(Tail(words))

\* str.strip() == ""
IsBlank(s) == \A i \in 1..Len(s) : IsSpace(s[i])

\* the loop of preprocess_text: one replace per phrase, in sequence order
RECURSIVE RemovePhrases(_, _)
RemovePhrases(s, phrases) ==
    IF phrases = <<>> THEN s
    ELSE RemovePhrases(replace(s, phrases[1], <<" ">>), Tail(phrases))

\* The five built-in phrases, over the model alphabet: phrases with an inner
\* space, a longer phrase listed before the shorter one it contains.
DEFAULT_STOP_PHRASES == << <<"t", " ", "t">>, <<"t">> >>

preprocess_text(text, stop_phrases) ==
    LET coerced == IF text = NoneCell THEN <<>>
                   ELSE IF text = NaN THEN <<"n", "a", "n">>
                   ELSE text
        lowered == RemovePhrases(lower(coerced), stop_phrases)
    IN  join(split(lowered))

Contains(s, sub) ==
    \E i \in 0..(Len(s) - Len(sub)) : SubSeq(s, i + 1, i + Len(sub)) = sub

RECURSIVE SeqsUpTo(_, _)
SeqsUpTo(S, n) ==
    IF n = 0 THEN {<<>>}
    ELSE LET shorter == SeqsUpTo(S, n - 1)
         IN  shorter \cup {Append(s, x) : s \in shorter, x \in S}

\* ------------------------------------------------------------- lexicon
\* A lexicon file as json.load returns it: entries in file order, keys unique.
LexiconFiles ==
    { <<>>,
      << [key |-> "G", keywords |-> << <<"e", "e">> >>] >>,
      << [key |-> "G", keywords |-> << <<"e", "e">> >>],
         [key |-> "H", keywords |-> << <<"E", "t">>, <<"e", "e">> >>] >>,
      << [key |-> "H", keywords |-> << <<"e">>, <<"e", "t">> >>],
         [key |-> "g", keywords |-> << <<"E", "E">> >>] >>,
      << [key |-> "g", keywords |-> << <<"t">> >>],
         [key |-> "G", keywords |-> << <<"e", "e">> >>] >> }

\* str.upper() on the group names of LexiconFiles
upper(k) == IF k = "g" THEN "G" ELSE k

\* dict insertion: a key already present keeps its place and takes the new value
DictPut(d, k, v) ==
    IF \E i \in 1..Len(d) : d[i].group = k
    THEN [i \in 1..Len(d) |->
            IF d[i].group = k THEN [group |-> k, keywords |-> v] ELSE d[i]]
    ELSE Append(d, [group |-> k, keywords |-> v])

RECURSIVE LexiconFrom(_, _)
LexiconFrom(data, d) ==
    IF data = <<>> THEN d
    ELSE LexiconFrom(Tail(data),
                     DictPut(d, upper(data[1].key),
                             [j \in 1..Len(data[1].keywords) |->
                                 lower(data[1].keywords[j])]))

\* the dict comprehension of load_lexicon, in iteration order
load_lexicon(data) == LexiconFrom(data, <<>>)

\* ------------------------------------------------------------- rule matcher
RULE_SCORE == 85

Range(f) == {f[i] : i \in DOMAIN f}

\* Variant: a keyword on either side is enough.
GroupHit_either(keywords, child_set, parent_set) ==
    \/ \E j \in 1..Len(keywords) : keywords[j] \in child_set
    \/ \E j \in 1..Len(keywords) : keywords[j] \in parent_set

GroupHit(keywords, child_set, parent_set) ==
    /\ \E j \in 1..Len(keywords) : keywords[j] \in child_set
    /\ \E j \in 1..Len(keywords) : keywords[j] \in parent_set

RECURSIVE MatchedGroups(_, _, _)
MatchedGroups(lex, child_set, parent_set) ==
    IF lex = <<>> THEN <<>>
    ELSE (IF GroupHit(lex[1].keywords, child_set, parent_set)
          THEN <<lex[1].group>> ELSE <<>>)
         \o MatchedGroups(Tail(lex), child_set, parent_set)

compute_rule_score(child_text, parent_text, lex) ==
    LET child_set == Range(split(preprocess_text(child_text, DEFAULT_STOP_PHRASES)))
        parent_set == Range(split(preprocess_text(parent_text, DEFAULT_STOP_PHRASES)))
        matched_groups == MatchedGroups(lex, child_set, parent_set)
    IN  IF matched_groups # <<>>
        THEN [score |-> Some(RULE_SCORE), groups |-> matched_groups]
        ELSE [score |-> None, groups |-> matched_groups]

\* ------------------------------------------------------------- fusion
Max2(a, b) == IF a >= b THEN a ELSE b

\* Variant: the rule branch takes the maximum of rule and embedding only.
compute_fusion_score_no_tfidf(rule_score, embed_score, tfidf_score) ==
    IF rule_score # None
    THEN [computed |-> Max2(Value(rule_score), embed_score), method |-> "Fusion"]
    ELSE IF embed_score >= tfidf_score
         THEN [computed |-> embed_score, method |-> "SBERT"]
         ELSE [computed |-> tfidf_score, method |-> "TF-IDF"]

\* Variant: the comparison of line 212 is strict, so a tie goes to TF-IDF.
compute_fusion_score_strict(rule_score, embed_score, tfidf_score) ==
    IF rule_score # None
    THEN [computed |-> Max2(Value(rule_score), Max2(embed_score, tfidf_score)),
          method |-> "Fusion"]
    ELSE IF embed_score > tfidf_score
         THEN [computed |-> embed_score, method |-> "SBERT"]
         ELSE [computed |-> tfidf_score, method |-> "TF-IDF"]

compute_fusion_score(rule_score, embed_score, tfidf_score) ==
    IF rule_score # None
    THEN [computed |-> Max2(Value(rule_score), Max2(embed_score, tfidf_score)),
          method |-> "Fusion"]
    ELSE IF embed_score >= tfidf_score
         THEN [computed |-> embed_score, method |-> "SBERT"]
         ELSE [computed |-> tfidf_score, method |-> "TF-IDF"]

\* ------------------------------------------------------------- similarity
\* Vectors an embedding backend may return (integer norms 5 and 10).
VecPool == { <<5, 0>>, <<6, 8>> }

Dot(u, v) == u[1] * v[1] + u[2] * v[2]

Norm(u) == CHOOSE n \in 0..20 : n * n = Dot(u, u)

\* row-wise L2 normalisation followed by the matrix product, in hundredths
compute_embedding_similarity(child_embeddings, parent_embeddings) ==
    IF Len(child_embeddings) = 0 \/ Len(parent_embeddings) = 0
    THEN [c \in 1..Len(child_embeddings) |-> [p \in 1..Len(parent_embeddings) |-> 0]]
    ELSE [c \in 1..Len(child_embeddings) |->
            [p \in 1..Len(parent_embeddings) |->
                (Dot(child_embeddings[c], parent_embeddings[p]) * 100)
                    \div (Norm(child_embeddings[c]) * Norm(parent_embeddings[p]))]]

\* Variant: one backend request per text.
embed_per_text(texts) == [i \in 1..Len(texts) |-> <<texts[i]>>]

\* The backend requests one embed(texts) call issues: a single request that
\* carries the whole batch (lines 130-133, line 146).
embed_batches(texts) == <<texts>>

\* What embed may return for a batch: one vector per text, equal texts
\* getting equal vectors.
EmbedResults(texts) ==
    { [i \in 1..Len(texts) |-> f[texts[i]]] : f \in [Range(texts) -> VecPool] }

\* The terms TfidfVectorizer keeps of a text: tokens of two or more word
\* characters (no token over Chars is an English stop word).
Terms(text) == { w \in Range(split(text)) : Len(w) >= 2 }

\* Cosines a TF-IDF space may give two texts that share a term.
TfidfShared == {70, 100}

\* fit_transform raises ValueError on an empty vocabulary; otherwise the
\* cosine of two rows is 0 when they share no term, 1 when the texts are
\* equal, and positive when they share one.
TfidfResults(child_texts, parent_texts) ==
    LET corpus == child_texts \o parent_texts
        pairs == (Range(child_texts)) \X (Range(parent_texts))
        ok(f) == \A q \in pairs :
                    IF Terms(q[1]) \cap Terms(q[2]) = {} THEN f[q] = 0
                    ELSE IF q[1] = q[2] THEN f[q] = 100
                    ELSE f[q] \in TfidfShared
    IN  IF \A i \in 1..Len(corpus) : Terms(corpus[i]) = {}
        THEN {}
        ELSE { [c \in 1..Len(child_texts) |->
                  [p \in 1..Len(parent_texts) |-> f[<<child_texts[c], parent_texts[p]>>]]]
               : f \in {g \in [pairs -> TfidfShared \cup {0}] : ok(g)} }

\* TfidfVectorizer(ngram_range=config.ngram_range).fit_transform rejects a
\* range whose lower bound exceeds its upper bound with a ValueError, before
\* it builds the vocabulary.
compute_tfidf_similarity(child_texts, parent_texts, cfg) ==
    IF cfg.ngram_range[1] > cfg.ngram_range[2] THEN {}
    ELSE TfidfResults(child_texts, parent_texts)

\* ------------------------------------------------------------- ranking
\* Variant: argsort of the scores themselves, lowest first.
Argsorts_ascending(scores) ==
    LET n == Len(scores)
    IN  { o \in [1..n -> 1..n] :
            /\ \A i, j \in 1..n : i # j => o[i] # o[j]
            /\ \A i \in 1..n, j \in 1..n : i < j => scores[o[i]] <= scores[o[j]] }

\* np.argsort(-scores): a permutation of the indices that lists the scores
\* in non-increasing order; the default sort kind is not stable, so equal
\* scores may come in any order.
Argsorts(scores) ==
    LET n == Len(scores)
    IN  { o \in [1..n -> 1..n] :
            /\ \A i, j \in 1..n : i # j => o[i] # o[j]
            /\ \A i \in 1..n, j \in 1..n : i < j => scores[o[i]] >= scores[o[j]] }

\* seq[:k] of Python
Slice(seq, k) ==
    IF k >= 0
    THEN SubSeq(seq, 1, IF k < Len(seq) THEN k ELSE Len(seq))
    ELSE SubSeq(seq, 1, IF Len(seq) + k > 0 THEN Len(seq) + k ELSE 0)

\* str(value) of a text cell
Str(text) ==
    IF text = NoneCell THEN <<"N", "o", "n", "e">>
    ELSE IF text = NaN THEN <<"n", "a", "n">>
    ELSE text

\* Series.fillna("").astype(str)
FillNa(text) == IF text = NoneCell \/ text = NaN THEN <<>> ELSE Str(text)

\* Variant: only a falsy cell counts as empty, whitespace is not stripped.
IsEmptyChild_no_strip(text) == text = <<>> \/ text = NoneCell

\* the test of line 251: a falsy cell, or one whose str() strips to ""
IsEmptyChild(text) == text = <<>> \/ text = NoneCell \/ IsBlank(Str(text))

\* ", ".join(matched_groups)
RECURSIVE JoinGroups(_)
JoinGroups(groups) ==
    IF groups = <<>> THEN ""
    ELSE IF Len(groups) = 1 THEN groups[1]
    ELSE groups[1] \o ", " \o JoinGroups(Tail(groups))

PlaceholderRow(child_row) ==
    [Child_ID |-> child_row.Child_ID, Child_Text |-> <<>>,
     Parent_ID |-> "", Parent_Text |-> <<>>,
     Score_Rule |-> 0, Score_Embedding |-> 0, Score_TFIDF |-> 0,
     Computed_Score |-> 0, Method_Used |-> "N/A", Matched_Groups |-> ""]

\* compute_rule_score when config.rules_enabled, (None, []) otherwise
RuleFor(child_row, parent_row, rules_enabled, lex) ==
    IF rules_enabled
    THEN compute_rule_score(child_row.Child_Text, parent_row.Parent_Text, lex)
    ELSE [score |-> None, groups |-> <<>>]

MatchRow(child_row, parent_row, rules_enabled, lex, embed_score, tfidf_score) ==
    LET rule == RuleFor(child_row, parent_row, rules_enabled, lex)
        fusion == compute_fusion_score(rule.score, embed_score, tfidf_score)
    IN  [Child_ID |-> child_row.Child_ID, Child_Text |-> child_row.Child_Text,
         Parent_ID |-> parent_row.Parent_ID, Parent_Text |-> parent_row.Parent_Text,
         Score_Rule |-> IF rule.score # None THEN Value(rule.score) ELSE 0,
         Score_Embedding |-> embed_score, Score_TFIDF |-> tfidf_score,
         Computed_Score |-> fusion.computed, Method_Used |-> fusion.method,
         Matched_Groups |-> JoinGroups(rule.groups)]

\* ------------------------------------------------------------- coverage
\* Series.unique(): the distinct values in order of first appearance
RECURSIVE Unique(_)
Unique(seq) ==
    IF seq = <<>> THEN <<>>
    ELSE LET init == Unique(SubSeq(seq, 1, Len(seq) - 1))
             last == seq[Len(seq)]
         IN  IF last \in Range(init) THEN init ELSE Append(init, last)

MaxOf(S) == CHOOSE m \in S : \A x \in S : x <= m

\* results_df[results_df["Child_ID"] == child_id]["Computed_Score"]
TraceScores(results_df, child_id) ==
    { results_df[i].Computed_Score :
        i \in {k \in 1..Len(results_df) : results_df[k].Child_ID = child_id} }

\* Variant: a best score equal to the threshold counts as an orphan.
IsOrphan_at_most(results_df, child_id, min_score_threshold) ==
    LET scores == TraceScores(results_df, child_id)
    IN  scores = {} \/ MaxOf(scores) <= min_score_threshold

IsOrphan(results_df, child_id, min_score_threshold) ==
    LET scores == TraceScores(results_df, child_id)
    IN  scores = {} \/ MaxOf(scores) < min_score_threshold

RECURSIVE Filter(_, _, _)
Filter(ids, results_df, min_score_threshold) ==
    IF ids = <<>> THEN <<>>
    ELSE (IF IsOrphan(results_df, ids[1], min_score_threshold)
          THEN <<ids[1]>> ELSE <<>>)
         \o Filter(Tail(ids), results_df, min_score_threshold)

\* Variant: only rows at or above the threshold map a parent.
validate_trace_coverage_confident(results_df, children, parents, min_score_threshold) ==
    LET child_ids == [i \in 1..Len(children) |-> children[i].Child_ID]
        mapped_parents == { results_df[i].Parent_ID :
                              i \in {k \in 1..Len(results_df) :
                                        results_df[k].Computed_Score >= min_score_threshold} }
        all_parents == { parents[i].Parent_ID : i \in 1..Len(parents) }
    IN  [orphan_children |-> Filter(Unique(child_ids), results_df, min_score_threshold),
         childless_parents |-> all_parents \ mapped_parents,
         total_children |-> Len(children),
         total_parents |-> Len(parents),
         total_traces |-> Len(results_df)]

validate_trace_coverage(results_df, children, parents, min_score_threshold) ==
    LET child_ids == [i \in 1..Len(children) |-> children[i].Child_ID]
        mapped_parents == { results_df[i].Parent_ID : i \in 1..Len(results_df) }
        all_parents == { parents[i].Parent_ID : i \in 1..Len(parents) }
    IN  [orphan_children |-> Filter(Unique(child_ids), results_df, min_score_threshold),
         childless_parents |-> all_parents \ mapped_parents,
         total_children |-> Len(children),
         total_parents |-> Len(parents),
         total_traces |-> Len(results_df)]

\* ------------------------------------------------------------- inputs
\* Texts, stop-phrases and scores the direct calls are given.
PhrasePool == { <<"t">>, <<"t", " ", "t">>, <<"e", " ", "e">> }

ScorePool == {0, 50, 85, 90, 100}

RuleScorePool == {None, Some(0), Some(85), Some(100)}

ChildTextPool == { <<>>, <<" ">>, <<"t", " ", "E", "e">> }

ParentTextPool == { <<"e", "e", " ", "e">>, <<"e", "t">> }

RuleTextPool ==
    ChildTextPool \cup ParentTextPool \cup { <<"E">>, <<"e", "e", "t">>, <<"E", " ", "e", "e", "t">> }

\* the lexicon file of a ranking run
SampleLexiconFile ==
    << [key |-> "G", keywords |-> << <<"e", "e">> >>],
       [key |-> "H", keywords |-> << <<"E", "t">>, <<"e", "e">> >>] >>

TopKs == {1, 2}

StopPhraseOptions == { DEFAULT_STOP_PHRASES, <<>> }

ChildTables ==
    { [i \in 1..n |-> [Child_ID |-> "C" \o ToString(i), Child_Text |-> t[i]]] :
        n \in 1..MaxChildren, t \in [1..MaxChildren -> ChildTextPool] }

ParentTables ==
    { [i \in 1..n |-> [Parent_ID |-> "P" \o ToString(i), Parent_Text |-> t[i]]] :
        n \in 1..MaxParents, t \in [1..MaxParents -> ParentTextPool] }

Configs ==
    [top_k : TopKs, ngram_range : {<<1, 3>>}, stop_phrases : StopPhraseOptions,
     rules_enabled : BOOLEAN]

\* Inputs rank_top_k accepts without complaint: a text cell read from an empty
\* spreadsheet cell, a parent text made of a stop-phrase only, and a config
\* whose top_k is below 1 or whose ngram_range is reversed.
AnyChildTextPool == ChildTextPool \cup {NaN}

AnyParentTextPool == ParentTextPool \cup { <<"t">> }

AnyChildTables ==
    { [i \in 1..n |-> [Child_ID |-> "C" \o ToString(i), Child_Text |-> t[i]]] :
        n \in 1..MaxChildren, t \in [1..MaxChildren -> AnyChildTextPool] }

AnyParentTables ==
    { [i \in 1..n |-> [Parent_ID |-> "P" \o ToString(i), Parent_Text |-> t[i]]] :
        n \in 1..MaxParents, t \in [1..MaxParents -> AnyParentTextPool] }

AnyConfigs ==
    [top_k : {-1, 0, 1, 2}, ngram_range : {<<1, 3>>, <<3, 1>>},
     stop_phrases : {DEFAULT_STOP_PHRASES}, rules_enabled : {TRUE}]

\* Tables given to a direct validate_trace_coverage call: ids may repeat,
\* and a result row may name any child and any parent.
ValChildTables ==
    { << [Child_ID |-> "C1"] >>,
      << [Child_ID |-> "C1"], [Child_ID |-> "C2"] >>,
      << [Child_ID |-> "C2"], [Child_ID |-> "C1"] >>,
      << [Child_ID |-> "C1"], [Child_ID |-> "C1"] >> }

ValParentTables ==
    { << [Parent_ID |-> "P1"] >>,
      << [Parent_ID |-> "P1"], [Parent_ID |-> "P2"] >>,
      << [Parent_ID |-> "P2"], [Parent_ID |-> "P1"] >> }

ValRows ==
    [Child_ID : {"C1", "C2"}, Parent_ID : {"P1", "P2"}, Computed_Score : {49, 50}]

DEFAULT_THRESHOLD == 50

\* ------------------------------------------------------------- state
VARIABLES
    pc,             \* where the running call stands
    call,           \* the call made: its function, arguments and result
    val_args,       \* arguments of validate_trace_coverage
    validation,     \* its return value
    children_df, parents_df, config,    \* arguments of rank_top_k
    lexicon, child_texts, parent_texts, \* its locals
    child_emb, parent_emb, embed_matrix, tfidf_matrix,
    child_idx,      \* the child the loop of line 249 is at
    rows,           \* the rows appended so far
    embed_calls,    \* the texts of each request to the embedding backend, in order
    fusion_calls,   \* the (child, parent) pairs compute_fusion_score was called for
    raised          \* the exception that ended the call, "" when none

vars == <<pc, call, val_args, validation, children_df, parents_df, config,
          lexicon, child_texts, parent_texts, child_emb, parent_emb,
          embed_matrix, tfidf_matrix, child_idx, rows, embed_calls,
          fusion_calls, raised>>

rank_vars == <<children_df, parents_df, config, lexicon, child_texts,
               parent_texts, child_emb, parent_emb, embed_matrix,
               tfidf_matrix, child_idx, rows, embed_calls, fusion_calls>>

val_vars == <<val_args, validation>>

Init ==
    /\ pc = "idle"
    /\ call = [op |-> "none"]
    /\ val_args = <<>>
    /\ validation = <<>>
    /\ children_df = <<>>
    /\ parents_df = <<>>
    /\ config = <<>>
    /\ lexicon = <<>>
    /\ child_texts = <<>>
    /\ parent_texts = <<>>
    /\ child_emb = <<>>
    /\ parent_emb = <<>>
    /\ embed_matrix = <<>>
    /\ tfidf_matrix = <<>>
    /\ child_idx = 0
    /\ rows = <<>>
    /\ embed_calls = <<>>
    /\ fusion_calls = {}
    /\ raised = ""

\* ------------------------------------------------------------- direct calls
CallPreprocessText ==
    /\ pc = "idle"
    /\ \E text \in SeqsUpTo(Chars, MaxTextLen), stop_phrases \in SeqsUpTo(PhrasePool, MaxPhrases) :
          call' = [op |-> "preprocess_text", text |-> text, stop_phrases |-> stop_phrases,
                   result |-> preprocess_text(text, stop_phrases)]
    /\ pc' = "returned"
    /\ UNCHANGED <<rank_vars, val_vars, raised>>

CallFusionScore ==
    /\ pc = "idle"
    /\ \E rule_score \in RuleScorePool, embed_score \in ScorePool, tfidf_score \in ScorePool :
          call' = [op |-> "compute_fusion_score", rule_score |-> rule_score,
                   embed_score |-> embed_score, tfidf_score |-> tfidf_score,
                   result |-> compute_fusion_score(rule_score, embed_score, tfidf_score)]
    /\ pc' = "returned"
    /\ UNCHANGED <<rank_vars, val_vars, raised>>

CallRuleScore ==
    /\ pc = "idle"
    /\ \E child_text \in RuleTextPool, parent_text \in RuleTextPool, data \in LexiconFiles :
          call' = [op |-> "compute_rule_score", child_text |-> child_text,
                   parent_text |-> parent_text, lexicon |-> load_lexicon(data),
                   result |-> compute_rule_score(child_text, parent_text, load_lexicon(data))]
    /\ pc' = "returned"
    /\ UNCHANGED <<rank_vars, val_vars, raised>>

CallValidate ==
    /\ pc = "idle"
    /\ \E results_df \in SeqsUpTo(ValRows, MaxRows), children \in ValChildTables,
          parents \in ValParentTables :
          val_args' = [results_df |-> results_df, children_df |-> children,
                       parents_df |-> parents, min_score_threshold |-> DEFAULT_THRESHOLD]
    /\ call' = [op |-> "validate_trace_coverage"]
    /\ pc' = "validate"
    /\ UNCHANGED <<rank_vars, validation, raised>>

Validate ==
    /\ pc = "validate"
    /\ validation' = validate_trace_coverage(val_args.results_df, val_args.children_df,
                                             val_args.parents_df, val_args.min_score_threshold)
    /\ pc' = "validated"
    /\ UNCHANGED <<rank_vars, val_args, call, raised>>

\* ------------------------------------------------------------- rank_top_k
CallRankTopK ==
    /\ pc = "idle"
    /\ \E c \in ChildTables, p \in ParentTables, cfg \in Configs :
          /\ children_df' = c
          /\ parents_df' = p
          /\ config' = cfg
    /\ call' = [op |-> "rank_top_k"]
    /\ pc' = "load_lexicon"
    /\ UNCHANGED <<lexicon, child_texts, parent_texts, child_emb, parent_emb,
                   embed_matrix, tfidf_matrix, child_idx, rows, embed_calls,
                   fusion_calls, val_vars, raised>>

\* rank_top_k entered with any table and any MatchingConfig value: the
\* dataclass checks nothing and neither does the function.
CallRankTopKAnyInput ==
    /\ pc = "idle"
    /\ \E c \in AnyChildTables, p \in AnyParentTables, cfg \in AnyConfigs :
          /\ children_df' = c
          /\ parents_df' = p
          /\ config' = cfg
    /\ call' = [op |-> "rank_top_k"]
    /\ pc' = "load_lexicon"
    /\ UNCHANGED <<lexicon, child_texts, parent_texts, child_emb, parent_emb,
                   embed_matrix, tfidf_matrix, child_idx, rows, embed_calls,
                   fusion_calls, val_vars, raised>>

\* line 236
LoadLexicon ==
    /\ pc = "load_lexicon"
    /\ lexicon' = load_lexicon(SampleLexiconFile)
    /\ pc' = "preprocess"
    /\ UNCHANGED <<call, children_df, parents_df, config, child_texts, parent_texts,
                   child_emb, parent_emb, embed_matrix, tfidf_matrix, child_idx,
                   rows, embed_calls, fusion_calls, val_vars, raised>>

\* Variant: the lexicon is opened only when the rule scores are first needed,
\* after both embedding calls.
LoadLexiconFails_late ==
    /\ pc = "similarity"
    /\ \E e \in {"FileNotFoundError", "JSONDecodeError"} : raised' = e
    /\ pc' = "raised"
    /\ UNCHANGED <<call, rank_vars, val_vars>>

\* line 236 when open or json.load raises
LoadLexiconFails ==
    /\ pc = "load_lexicon"
    /\ \E e \in {"FileNotFoundError", "JSONDecodeError"} : raised' = e
    /\ pc' = "raised"
    /\ UNCHANGED <<call, rank_vars, val_vars>>

\* lines 239-240: map(preprocess_text) passes no stop-phrases
Preprocess ==
    /\ pc = "preprocess"
    /\ child_texts' = [i \in 1..Len(children_df) |->
                          preprocess_text(FillNa(children_df[i].Child_Text), DEFAULT_STOP_PHRASES)]
    /\ parent_texts' = [i \in 1..Len(parents_df) |->
                          preprocess_text(FillNa(parents_df[i].Parent_Text), DEFAULT_STOP_PHRASES)]
    /\ pc' = "embed_children"
    /\ UNCHANGED <<call, children_df, parents_df, config, lexicon, child_emb,
                   parent_emb, embed_matrix, tfidf_matrix, child_idx, rows,
                   embed_calls, fusion_calls, val_vars, raised>>

\* line 243
EmbedChildren ==
    /\ pc = "embed_children"
    /\ embed_calls' = embed_calls \o embed_batches(child_texts)
    /\ \/ /\ child_emb' \in EmbedResults(child_texts)
          /\ pc' = "embed_parents"
          /\ UNCHANGED raised
       \/ /\ raised' = "EmbeddingError"
          /\ pc' = "raised"
          /\ UNCHANGED child_emb
    /\ UNCHANGED <<call, children_df, parents_df, config, lexicon, child_texts,
                   parent_texts, parent_emb, embed_matrix, tfidf_matrix, child_idx,
                   rows, fusion_calls, val_vars>>

\* line 244
EmbedParents ==
    /\ pc = "embed_parents"
    /\ embed_calls' = embed_calls \o embed_batches(parent_texts)
    /\ \/ /\ parent_emb' \in EmbedResults(parent_texts)
          /\ pc' = "similarity"
          /\ UNCHANGED raised
       \/ /\ raised' = "EmbeddingError"
          /\ pc' = "raised"
          /\ UNCHANGED parent_emb
    /\ UNCHANGED <<call, children_df, parents_df, config, lexicon, child_texts,
                   parent_texts, child_emb, embed_matrix, tfidf_matrix, child_idx,
                   rows, fusion_calls, val_vars>>

\* lines 245-246
Similarity ==
    /\ pc = "similarity"
    /\ embed_matrix' = compute_embedding_similarity(child_emb, parent_emb)
    /\ \/ /\ tfidf_matrix' \in compute_tfidf_similarity(child_texts, parent_texts, config)
          /\ child_idx' = 1
          /\ pc' = "loop"
          /\ UNCHANGED raised
       \/ /\ compute_tfidf_similarity(child_texts, parent_texts, config) = {}
          /\ raised' = "ValueError"
          /\ pc' = "raised"
          /\ UNCHANGED <<tfidf_matrix, child_idx>>
    /\ UNCHANGED <<call, children_df, parents_df, config, lexicon, child_texts,
                   parent_texts, child_emb, parent_emb, rows, embed_calls,
                   fusion_calls, val_vars>>

\* lines 249-270: one pass of the loop, at a child with empty text
EmitPlaceholder ==
    /\ pc = "loop"
    /\ child_idx <= Len(children_df)
    /\ IsEmptyChild(children_df[child_idx].Child_Text)
    /\ rows' = Append(rows, PlaceholderRow(children_df[child_idx]))
    /\ child_idx' = child_idx + 1
    /\ UNCHANGED <<pc, call, children_df, parents_df, config, lexicon, child_texts,
                   parent_texts, child_emb, parent_emb, embed_matrix, tfidf_matrix,
                   embed_calls, fusion_calls, val_vars, raised>>

\* the fused score of every parent for child c (lines 276-289)
FusionScores(c) ==
    [p \in 1..Len(parents_df) |->
        compute_fusion_score(
            RuleFor(children_df[c], parents_df[p], config.rules_enabled, lexicon).score,
            embed_matrix[c][p], tfidf_matrix[c][p]).computed]

\* lines 249-325: one pass of the loop, at any other child
EmitMatches ==
    /\ pc = "loop"
    /\ child_idx <= Len(children_df)
    /\ ~IsEmptyChild(children_df[child_idx].Child_Text)
    /\ \E order \in Argsorts(FusionScores(child_idx)) :
          LET best_parent_indices == Slice(order, config.top_k)
          IN  rows' = rows \o
                  [k \in 1..Len(best_parent_indices) |->
                      MatchRow(children_df[child_idx], parents_df[best_parent_indices[k]],
                               config.rules_enabled, lexicon,
                               embed_matrix[child_idx][best_parent_indices[k]],
                               tfidf_matrix[child_idx][best_parent_indices[k]])]
    /\ fusion_calls' = fusion_calls \cup {<<child_idx, p>> : p \in 1..Len(parents_df)}
    /\ child_idx' = child_idx + 1
    /\ UNCHANGED <<pc, call, children_df, parents_df, config, lexicon, child_texts,
                   parent_texts, child_emb, parent_emb, embed_matrix, tfidf_matrix,
                   embed_calls, val_vars, raised>>

\* line 327
Return ==
    /\ pc = "loop"
    /\ child_idx > Len(children_df)
    /\ pc' = "done"
    /\ UNCHANGED <<call, rank_vars, val_vars, raised>>

Next ==
    \/ CallPreprocessText
    \/ CallFusionScore
    \/ CallRuleScore
    \/ CallValidate
    \/ Validate
    \/ CallRankTopK
    \/ LoadLexicon
    \/ LoadLexiconFails
    \/ Preprocess
    \/ EmbedChildren
    \/ EmbedParents
    \/ Similarity
    \/ EmitPlaceholder
    \/ EmitMatches
    \/ Return

Spec == Init /\ [][Next]_vars

\* A ranking run over the wider inputs.
NextAnyInput ==
    \/ CallRankTopKAnyInput
    \/ LoadLexicon
    \/ LoadLexiconFails
    \/ Preprocess
    \/ EmbedChildren
    \/ EmbedParents
    \/ Similarity
    \/ EmitPlaceholder
    \/ EmitMatches
    \/ Return

SpecAnyInput == Init /\ [][NextAnyInput]_vars

\* ------------------------------------------------------------- properties
SetMax(S) == CHOOSE m \in S : \A x \in S : x <= m

IsFusionCall == pc = "returned" /\ call.op = "compute_fusion_score"

\* C1: the score fuse returns is the maximum of the three scores when a rule
\* score is present (a present 0.0 included), and otherwise the embedding
\* score when it is at least the tfidf score, else the tfidf score.
C1_FusedScore ==
    IsFusionCall =>
        call.result.computed =
            IF call.rule_score # None
            THEN SetMax({Value(call.rule_score), call.embed_score, call.tfidf_score})
            ELSE IF call.embed_score >= call.tfidf_score THEN call.embed_score
            ELSE call.tfidf_score

C1_Witness ==
    /\ IsFusionCall
    /\ call.rule_score = Some(0)
    /\ call.embed_score < call.tfidf_score
    /\ call.result.computed = call.tfidf_score
    /\ call.tfidf_score > 0

MethodPolicy(fusion, embedding, lexical) ==
    IsFusionCall =>
        call.result.method =
            IF call.rule_score # None THEN fusion
            ELSE IF call.embed_score >= call.tfidf_score THEN embedding
            ELSE lexical

RowLabelsIn(labels) ==
    call.op = "rank_top_k" => \A i \in 1..Len(rows) : rows[i].Method_Used \in labels

RowsOf(child_id) == SelectSeq(rows, LAMBDA r : r.Child_ID = child_id)

ChildIds == { children_df[i].Child_ID : i \in 1..Len(children_df) }

\* C3: for every child of the input the result table holds at most top_k
\* rows, and they come in non-increasing order of fused score.
C3_TopKSorted ==
    call.op = "rank_top_k" =>
        \A id \in ChildIds :
            LET mine == RowsOf(id)
            IN  /\ Len(mine) <= config.top_k
                /\ \A i, j \in 1..Len(mine) :
                      i < j => mine[i].Computed_Score >= mine[j].Computed_Score

C3_Witness ==
    /\ pc = "done"
    /\ config.top_k = 1
    /\ Len(parents_df) = 2
    /\ \E id \in ChildIds :
          /\ Len(RowsOf(id)) = 1
          /\ RowsOf(id)[1].Parent_ID = "P2"
          /\ RowsOf(id)[1].Computed_Score = 100
    /\ \E c \in 1..Len(children_df) :
          /\ ~IsEmptyChild(children_df[c].Child_Text)
          /\ FusionScores(c)[2] > FusionScores(c)[1]

BlankText(text) == \A i \in 1..Len(text) : text[i] = " "

PlaceholderOnly(c, label) ==
    LET mine == RowsOf(children_df[c].Child_ID)
    IN  /\ Len(mine) = 1
        /\ mine[1].Parent_ID = ""
        /\ mine[1].Parent_Text = <<>>
        /\ mine[1].Score_Rule = 0
        /\ mine[1].Score_Embedding = 0
        /\ mine[1].Score_TFIDF = 0
        /\ mine[1].Computed_Score = 0
        /\ mine[1].Method_Used = label
        /\ \A q \in fusion_calls : q[1] # c

IsRuleCall == pc = "returned" /\ call.op = "compute_rule_score"

TokenSet(text) == Range(split(preprocess_text(text, DEFAULT_STOP_PHRASES)))

GroupMatches(entry) ==
    /\ TokenSet(call.child_text) \cap Range(entry.keywords) # {}
    /\ TokenSet(call.parent_text) \cap Range(entry.keywords) # {}

\* C5: a lexicon group is matched exactly when the token sets of the
\* normalized child text and of the normalized parent text each hold a keyword
\* of the group; the result is 0.85 with the matched groups in lexicon order
\* when a group matched, and an absent score with no groups otherwise.
C5_RuleScore ==
    IsRuleCall =>
        LET matched == SelectSeq(call.lexicon, GroupMatches)
            names == [i \in 1..Len(matched) |-> matched[i].group]
        IN  /\ call.result.groups = names
            /\ call.result.score = IF names # <<>> THEN Some(85) ELSE None

C5_Witness ==
    /\ IsRuleCall
    /\ call.result.groups = <<"H", "G">>
    /\ call.result.score = Some(85)
    /\ call.child_text # call.parent_text

IsValidated == pc = "validated"

RowSet == { val_args.results_df[i] : i \in 1..Len(val_args.results_df) }

IsPreprocessCall == pc = "returned" /\ call.op = "preprocess_text"

\* C8: normalize is idempotent for every text and every sequence of
\* stop-phrases, and its result holds no configured stop-phrase as a substring.
C8_Idempotent ==
    IsPreprocessCall =>
        /\ preprocess_text(call.result, call.stop_phrases) = call.result
        /\ \A i \in 1..Len(call.stop_phrases) : ~Contains(call.result, call.stop_phrases[i])

\* C9: rank normalizes the child and parent texts with the stop-phrases of the
\* config it is given, in the configured order.
C9_ConfiguredStopPhrases ==
    (call.op = "rank_top_k" /\ pc \notin {"load_lexicon", "preprocess", "raised"}) =>
        /\ \A c \in 1..Len(children_df) :
              child_texts[c] = preprocess_text(FillNa(children_df[c].Child_Text), config.stop_phrases)
        /\ \A p \in 1..Len(parents_df) :
              parent_texts[p] = preprocess_text(FillNa(parents_df[p].Parent_Text), config.stop_phrases)

LexiconErrors == {"FileNotFoundError", "JSONDecodeError"}

\* C11: when loading the lexicon or an embedding call fails, rank ends with
\* the error raised and no result row exists, and a lexicon failure comes
\* before any embedding call and before any pair is scored.
C11_AbortWithoutRows ==
    (call.op = "rank_top_k" /\ pc = "raised") =>
        /\ raised # ""
        /\ rows = <<>>
        /\ fusion_calls = {}
        /\ raised \in LexiconErrors => embed_calls = <<>>
        /\ raised = "EmbeddingError" => Len(embed_calls) \in {1, 2}

C11_Witness ==
    /\ pc = "raised"
    /\ raised = "EmbeddingError"
    /\ Len(embed_calls) = 2
    /\ child_emb # <<>>
    /\ rows = <<>>

InvalidConfig ==
    config.top_k < 1 \/ config.ngram_range[1] > config.ngram_range[2]

\* C12: rank given an invalid MatchingConfig (top_k < 1, or ngram_range with
\* min > max) fails before any embedding call or scoring starts and produces
\* no result table.
C12_InvalidConfigRejected ==
    (call.op = "rank_top_k" /\ InvalidConfig) =>
        /\ embed_calls = <<>>
        /\ fusion_calls = {}
        /\ rows = <<>>
        /\ pc # "done"

EmptyCorpus ==
    /\ child_texts # <<>>
    /\ parent_texts # <<>>
    /\ \A i \in 1..Len(child_texts) : child_texts[i] = <<>>
    /\ \A j \in 1..Len(parent_texts) : parent_texts[j] = <<>>

\* C13: when every child and parent text is empty after normalization, the
\* TF-IDF similarity is an all-zero children x parents matrix and no error is
\* raised, so the ranking run still completes.
C13_EmptyCorpusZeroMatrix ==
    (call.op = "rank_top_k" /\ ~InvalidConfig /\ EmptyCorpus) =>
        /\ raised # "ValueError"
        /\ pc \in {"loop", "done"} =>
              /\ Len(tfidf_matrix) = Len(child_texts)
              /\ \A i \in 1..Len(tfidf_matrix) :
                    /\ Len(tfidf_matrix[i]) = Len(parent_texts)
                    /\ \A j \in 1..Len(tfidf_matrix[i]) : tfidf_matrix[i][j] = 0

\* The descending order in which equal scores keep their index order.
StableDescending(scores) ==
    CHOOSE o \in Argsorts(scores) :
        \A i, j \in 1..Len(scores) :
            (i < j /\ scores[o[i]] = scores[o[j]]) => o[i] < o[j]

\* C14: for every child with non-empty text the emitted parents are, in
\* order, the first top_k entries of the stable descending sort of all
\* parents by fused score: no parent left out scores strictly higher than an
\* emitted one, and among equal scores the earlier parent of the table is
\* selected first and listed first.
C14_StableTopK ==
    call.op = "rank_top_k" =>
        \A c \in 1..Len(children_df) :
            (c < child_idx /\ ~IsEmptyChild(children_df[c].Child_Text)) =>
                LET mine == RowsOf(children_df[c].Child_ID)
                    best == Slice(StableDescending(FusionScores(c)), config.top_k)
                IN  /\ Len(mine) = Len(best)
                    /\ \A k \in 1..Len(best) :
                          mine[k].Parent_ID = parents_df[best[k]].Parent_ID

\* C15: a child whose text cell is missing (NaN) is treated like a child with
\* empty text: the children that get the single placeholder row, with all
\* scores 0.0 and no parent, are exactly the children whose text is empty
\* after the fillna("") coercion that builds the embedded texts.
C15_MissingTextIsEmpty ==
    (call.op = "rank_top_k" /\ pc = "done" /\ ~InvalidConfig) =>
        \A c \in 1..Len(children_df) :
            PlaceholderOnly(c, "N/A") <=> BlankText(FillNa(children_df[c].Child_Text))

====
